---- MODULE Spec2Model ----
(***************************************************************************)
(* govee2mqtt.py: the advertisement callback of the Govee BLE to MQTT      *)
(* bridge.  The state is the module-level dictionary govee_devices; the    *)
(* one operation is on_advertisement, which gates, classifies, decodes,    *)
(* publishes through mqtt_publish and registers new devices.               *)
(*                                                                         *)
(* Python dictionaries are functions whose DOMAIN is the set of keys, so   *)
(* that a missing key (KeyError) is distinguishable from a stored value.   *)
(* Temperatures and humidities are kept in hundredths (the code stores     *)
(* raw / 100.0).  Byte strings are sequences over 0..255, names are        *)
(* sequences of one-character strings.  An exception that leaves the       *)
(* callback is recorded in ev.raised; the registry keeps whatever had been *)
(* written before the raise.  A process that dies of it simply takes no    *)
(* further step (stuttering).                                              *)
(***************************************************************************)
EXTENDS Integers, Sequences, FiniteSets, TLC

VARIABLES govee_devices, now, args, ev, last_attempt, announce_count, inflight

vars == <<govee_devices, now, args, ev, last_attempt, announce_count, inflight>>

----------------------------------------------------------------------------
(* Bounds and input samples *)

MaxWindows == 2

(* temperatures of the round trip, in hundredths: -MaxTemp .. MaxTemp *)
MaxTemp == 200

log_interval == 59

(* an optional value is a set: None is the empty set, a present value v is *)
(* the singleton {v}                                                       *)
None == {}
Some(v) == {v}
The(o) == CHOOSE v \in o : TRUE

(* clock readings: the last second inside and the first second outside     *)
(* each debounce window counted from a publish at 0, 60, ...               *)
Clock == UNION {{(log_interval + 1) * k - 1, (log_interval + 1) * k} : k \in 1..MaxWindows}

AllMACs == {"A4:C1:38:00:00:01", "A4:C1:38:00:00:02"}

(* the addresses that advertise under Spec *)
MACs == {"A4:C1:38:00:00:01"}

GoveeX == <<"G", "o", "v", "e", "e", "X", "'", "A", "B", "C">>
NotGovee == <<"G", "o", "v">>
Names == {None, Some(GoveeX), Some(NotGovee)}

(* 16-bit little-endian encoding of a signed value, as the sensor sends it *)
Lo(v) == (v % 65536) % 256
Hi(v) == (v % 65536) \div 256

H5074Payload(t, h, b) == <<136, 236, 0, Lo(t), Hi(t), Lo(h), Hi(h), b, 0>>
H5179Payload(t, h, b) == <<1, 136, 236, 0, 1, 1, Lo(t), Hi(t), Lo(h), Hi(h), b>>

(* sensor readings (hundredths of a degree, hundredths of a percent,       *)
(* percent) and the manufacturer data a sensor of that model sends for them *)
Readings == {[layout |-> "H5074", t |-> 2130, h |-> 5520, b |-> 88],
             [layout |-> "H5074", t |-> 0 - 550, h |-> 0, b |-> 100],
             [layout |-> "H5179", t |-> 0 - 200, h |-> 9990, b |-> 15]}

Encode(r) == IF r.layout = "H5074" THEN H5074Payload(r.t, r.h, r.b)
             ELSE H5179Payload(r.t, r.h, r.b)

ValidPayloads == {Encode(r) : r \in Readings}

(* known prefix with a wrong length, unknown prefix with a known length,   *)
(* a single byte, no byte at all                                           *)
BadPayloads == {<<136, 236, 0, 82, 8, 144, 21, 88>>,
                <<1, 136, 0, 82, 8, 144, 21, 88, 0, 0>>,
                <<136, 237, 0, 82, 8, 144, 21, 88, 0>>,
                <<136>>,
                <<>>}

Rssis == {None, Some(0), Some(-72), Some(-60)}

(* advertisements that cannot reach mqtt_publish: a bare sighting, or      *)
(* manufacturer data of no known layout                                    *)
QuietAds ==
    [name : Names, mfg_data : {None}, rssi : {None}]
    \cup [name : {None}, mfg_data : {Some(p) : p \in BadPayloads}, rssi : {Some(-72)}]

(* advertisements with manufacturer data of a known layout, one of them    *)
(* carrying the vendor name as well                                        *)
ReadingAds ==
    [name : {None}, mfg_data : {Some(p) : p \in ValidPayloads}, rssi : Rssis]
    \cup [name : {Some(GoveeX)}, mfg_data : {Some(H5074Payload(2130, 5520, 88))},
          rssi : {Some(-72)}]

(* what the paho client does when mqtt_publish drives it *)
SinkOutcomes == {"ok", "connect_oserror", "connect_mqttexc", "publish_mqttexc"}

----------------------------------------------------------------------------
(* Python helpers *)

HasKey(d, k) == k \in DOMAIN d

SetKey(d, k, v) == [x \in DOMAIN d \cup {k} |-> IF x = k THEN v ELSE d[x]]

(* variant: only the first three characters are compared *)
StartsWith_short(s, p) == Len(s) >= 3 /\ SubSeq(s, 1, 3) = SubSeq(p, 1, 3)

(* str.startswith *)
StartsWith(s, p) == Len(s) >= Len(p) /\ SubSeq(s, 1, Len(p)) = p

(* s.split(c)[0]: the part of s before the first c, all of s without one *)
SplitFirst(s, c) ==
    IF \E i \in 1..Len(s) : s[i] = c
    THEN LET i == CHOOSE i \in 1..Len(s) : s[i] = c /\ \A j \in 1..(i - 1) : s[j] # c
         IN SubSeq(s, 1, i - 1)
    ELSE s

(* int(mfg_data.hex()[0:4], 16): the first two bytes, big-endian; one byte *)
(* gives that byte, no byte makes int('') raise ValueError                 *)
PrefixRaises(mfg) == Len(mfg) = 0

Prefix(mfg) == IF Len(mfg) = 1 THEN mfg[1] ELSE mfg[1] * 256 + mfg[2]

(* variant: the offset is taken as 1-based *)
UnpackFrom_oneBased(data, off) ==
    [raw_temp |-> data[off] + 256 * data[off + 1],
     hum      |-> data[off + 2] + 256 * data[off + 3],
     batt     |-> data[off + 4]]

(* unpack_from("<HHB", data, off): 0-based offset off, 5 bytes; a buffer   *)
(* that ends before them raises struct.error                               *)
UnpackRaises(data, off) == off + 5 > Len(data)

UnpackFrom(data, off) ==
    [raw_temp |-> data[off + 1] + 256 * data[off + 2],
     hum      |-> data[off + 3] + 256 * data[off + 4],
     batt     |-> data[off + 5]]

(* variant: bit w is tested in place of bit w-1 *)
twos_complement_wrongBit(n, w) ==
    IF (n \div (2 ^ w)) % 2 = 1 THEN n - 2 ^ w ELSE n

(* n & (1 << (w - 1)) tests bit w-1 of n *)
twos_complement(n, w) ==
    IF (n \div (2 ^ (w - 1))) % 2 = 1 THEN n - 2 ^ w ELSE n

----------------------------------------------------------------------------
(* mqtt_publish(event, data): what one call does, as a record.             *)
(*   handed    the call got a non-empty data dictionary to publish         *)
(*   published client.publish(args.mqtt_topic, ...) returned               *)
(*   announced send_ha_discovery_messages was called                       *)
(*   reported  the except clause printed the failure                       *)
(*   raised    the exception that leaves the call, "none" without one      *)

PayloadKeys == <<"temperature", "humidity", "battery", "rssi", "timestamp">>

(* the payload literal reads the keys in order; the first missing one      *)
(* raises KeyError                                                         *)
MissingKey(data) == \E i \in 1..Len(PayloadKeys) : ~HasKey(data, PayloadKeys[i])

Quiet == [handed |-> 0, published |-> 0, announced |-> 0, reported |-> FALSE,
          raised |-> "none"]

(* variant: the announcement is kept for the first publish of a device *)
Announces_firstOnly(ha, data) == ha /\ data["last_log"] = 0

(* if args.ha_discovery: send_ha_discovery_messages(client, data) *)
Announces(ha, data) == ha

mqtt_publish(event, data, sink, ha) ==
    IF DOMAIN data = {} THEN Quiet
    ELSE LET h == [Quiet EXCEPT !.handed = 1] IN
         IF sink = "connect_oserror" THEN [h EXCEPT !.raised = "OSError"]
         ELSE IF sink = "connect_mqttexc"
              (* caught; the second print reads the unbound local payload *)
              THEN [h EXCEPT !.reported = TRUE, !.raised = "UnboundLocalError"]
         ELSE IF MissingKey(data) THEN [h EXCEPT !.raised = "KeyError"]
         ELSE IF sink = "publish_mqttexc" THEN [h EXCEPT !.reported = TRUE]
         ELSE [h EXCEPT !.published = 1,
                        !.announced = IF Announces(ha, data) THEN 1 ELSE 0]

(* process(mac) *)
process(d, mac, sink, ha) == mqtt_publish(d[mac]["name"], d[mac], sink, ha)

----------------------------------------------------------------------------
(* on_advertisement, statement by statement.  A stage is the registry      *)
(* together with what the callback has done so far; a stage with           *)
(* raised # "none" is left alone by every later statement.                 *)

Start(d) == [d |-> d, handed |-> 0, published |-> 0, announced |-> 0,
             reported |-> FALSE, raised |-> "none", decodes |-> 0,
             branches |-> {}, gate |-> "skipped", registered |-> FALSE]

IsH5074(prefix, len) == prefix = 35052 /\ len = 9      \* 0x88EC

(* variant: the second branch still tests the first layout *)
IsH5179_copied(prefix, len) == prefix = 35052 /\ len = 9

IsH5179(prefix, len) == prefix = 392 /\ len = 11       \* 0x0188

(* float(hum / 100.0), in hundredths *)
Humidity(hum) == hum

(* float(twos_complement(raw_temp) / 100.0), in hundredths *)
Temperature(raw_temp) == twos_complement(raw_temp, 16)

(* variant: the humidity assignment is missing *)
Decode_noHumidity(e, u, mac, time_now) ==
    SetKey(SetKey(SetKey(SetKey(e,
        "temperature", Temperature(u.raw_temp)),
        "battery", u.batt),
        "timestamp", time_now),
        "address", mac)

(* the five assignments after unpack_from *)
Decode(e, u, mac, time_now) ==
    SetKey(SetKey(SetKey(SetKey(SetKey(e,
        "temperature", Temperature(u.raw_temp)),
        "humidity", Humidity(u.hum)),
        "battery", u.batt),
        "timestamp", time_now),
        "address", mac)

(* variant: the test for 0 is missing *)
StoreRssi_anyValue(e, rssi) ==
    IF rssi # None THEN SetKey(e, "rssi", The(rssi)) ELSE e

(* if advertisement.rssi is not None and advertisement.rssi != 0 *)
StoreRssi(e, rssi) ==
    IF rssi # None /\ The(rssi) # 0 THEN SetKey(e, "rssi", The(rssi)) ELSE e

(* variant: last_log is written before process is called *)
Commit_always(e, r, time_now) == SetKey(e, "last_log", time_now)

(* process(mac) followed by govee_devices[mac]["last_log"] = time_now: the *)
(* assignment runs only when process returned                              *)
Commit(e, r, time_now) ==
    IF r.raised # "none" THEN e ELSE SetKey(e, "last_log", time_now)

(* variant: one last_log for all devices, written into every entry *)
Branch_sharedGate(st, layout, off, mac, mfg, rssi, time_now, sink, ha) ==
    LET s0 == [st EXCEPT !.branches = @ \cup {layout}] IN
    IF UnpackRaises(mfg, off) THEN [s0 EXCEPT !.raised = "struct.error"]
    ELSE LET u  == UnpackFrom(mfg, off)
             e  == StoreRssi(Decode(st.d[mac], u, mac, time_now), rssi)
             d1 == [st.d EXCEPT ![mac] = e]
             r  == process(d1, mac, sink, ha)
         IN [s0 EXCEPT !.d = [m \in DOMAIN d1 |-> Commit(d1[m], r, time_now)],
                       !.decodes = @ + 1,
                       !.handed = @ + r.handed,
                       !.published = @ + r.published,
                       !.announced = @ + r.announced,
                       !.reported = @ \/ r.reported,
                       !.raised = r.raised]

(* the body of one layout branch: unpack, store, process, last_log *)
Branch(st, layout, off, mac, mfg, rssi, time_now, sink, ha) ==
    LET s0 == [st EXCEPT !.branches = @ \cup {layout}] IN
    IF UnpackRaises(mfg, off) THEN [s0 EXCEPT !.raised = "struct.error"]
    ELSE LET u  == UnpackFrom(mfg, off)
             e  == StoreRssi(Decode(st.d[mac], u, mac, time_now), rssi)
             d1 == [st.d EXCEPT ![mac] = e]
             r  == process(d1, mac, sink, ha)
         IN [s0 EXCEPT !.d = [d1 EXCEPT ![mac] = Commit(e, r, time_now)],
                       !.decodes = @ + 1,
                       !.handed = @ + r.handed,
                       !.published = @ + r.published,
                       !.announced = @ + r.announced,
                       !.reported = @ \/ r.reported,
                       !.raised = r.raised]

(* variant: >= in place of > *)
GateOpen_inclusive(last_log, time_now) == time_now - last_log >= log_interval

(* variant: the comparison is reversed *)
GateOpen_reversed(last_log, time_now) == time_now - last_log < log_interval

(* time_now - govee_devices[mac]["last_log"] > log_interval *)
GateOpen(last_log, time_now) == time_now - last_log > log_interval

(* the first if of the callback, with both layout branches in sequence *)
Reading(st, mac, mfg_data, rssi, time_now, sink, ha) ==
    IF ~(mac \in DOMAIN st.d /\ mfg_data # None) THEN st
    ELSE IF ~GateOpen(st.d[mac]["last_log"], time_now)
         THEN [st EXCEPT !.gate = "denied"]
    ELSE LET g   == [st EXCEPT !.gate = "passed"]
             mfg == The(mfg_data)
         IN IF PrefixRaises(mfg) THEN [g EXCEPT !.raised = "ValueError"]
            ELSE LET prefix == Prefix(mfg)
                     a == IF IsH5074(prefix, Len(mfg))
                          THEN Branch(g, "H5074", 3, mac, mfg, rssi, time_now, sink, ha)
                          ELSE g
                 IN IF a.raised # "none" THEN a
                    ELSE IF IsH5179(prefix, Len(mfg))
                         THEN Branch(a, "H5179", 6, mac, mfg, rssi, time_now, sink, ha)
                         ELSE a

(* what the registration block stores for a new device *)
NewEntry(mac, name) ==
    [address |-> mac, name |-> SplitFirst(name, "'"), last_log |-> 0, timestamp |-> 0]

(* variant: the test mac not in govee_devices is missing *)
Register_overwrites(st, mac, name) ==
    IF st.raised # "none" THEN st
    ELSE IF name # None /\ StartsWith(The(name), <<"G", "o", "v", "e", "e">>)
         THEN [st EXCEPT !.registered = TRUE,
                         !.d = [m \in DOMAIN st.d \cup {mac} |->
                                 IF m = mac THEN NewEntry(mac, The(name))
                                 ELSE st.d[m]]]
         ELSE st

(* the second if of the callback: add a new Govee device *)
Register(st, mac, name) ==
    IF st.raised # "none" THEN st
    ELSE IF name # None /\ StartsWith(The(name), <<"G", "o", "v", "e", "e">>)
            /\ mac \notin DOMAIN st.d
         THEN [st EXCEPT !.registered = TRUE,
                         !.d = [m \in DOMAIN st.d \cup {mac} |->
                                 IF m = mac THEN NewEntry(mac, The(name))
                                 ELSE st.d[m]]]
         ELSE st

(* variant: the registration block runs before the reading block *)
Handle_registersFirst(d, mac, name, mfg, rssi, time_now, sink, ha) ==
    Reading(Register(Start(d), mac, name), mac, mfg, rssi, time_now, sink, ha)

Handle(d, mac, name, mfg, rssi, time_now, sink, ha) ==
    Register(Reading(Start(d), mac, mfg, rssi, time_now, sink, ha), mac, name)

----------------------------------------------------------------------------
(* The state machine *)

NoTime == 0 - 1

(* a publish attempt: mqtt_publish was called and the MQTT client was      *)
(* given the reading or could not be reached; a call that stops at the     *)
(* payload literal is none                                                 *)
Attempt(st) == st.handed > 0 /\ st.raised # "KeyError"

(* ev is the last callback: the advertisement it got and what it did.     *)
(* sink is recorded only when the callback called mqtt_publish;            *)
(* last_attempt and announce_count keep, per address, the time of the      *)
(* last publish attempt and the number of discovery announcements.         *)
(* inflight is the callback that is inside mqtt_publish, waiting for the   *)
(* MQTT client, under SpecIntake; under the other specifications a         *)
(* callback is one step and inflight stays None.                           *)
NoEvent == [mac |-> "none", name |-> None, mfg_data |-> None, rssi |-> None,
            sink |-> "unused", time |-> NoTime, gate |-> "skipped",
            decodes |-> 0, branches |-> {}, handed |-> 0, published |-> 0,
            announced |-> 0, reported |-> FALSE, raised |-> "none",
            registered |-> FALSE, attempt |-> FALSE, prev_attempt |-> NoTime]

Init ==
    /\ govee_devices = << >>
    /\ now \in Clock
    /\ args \in [ha_discovery : BOOLEAN]
    /\ ev = NoEvent
    /\ last_attempt = [m \in AllMACs |-> NoTime]
    /\ announce_count = [m \in AllMACs |-> 0]
    /\ inflight = None

(* the clock moves on between two callbacks *)
Tick ==
    /\ \E t \in Clock : t > now /\ now' = t
    /\ UNCHANGED <<govee_devices, args, ev, last_attempt, announce_count, inflight>>

(* the run of the callback on advertisement a from address mac, with      *)
(* time_now what time.time() returned and sink what the MQTT client does   *)
(* if the callback publishes                                               *)
Callback(mac, a, sink, time_now) ==
    \E st \in {Handle(govee_devices, mac, a.name, a.mfg_data, a.rssi, time_now, sink,
                     args.ha_discovery)} :
    /\ govee_devices' = st.d
    /\ ev' = [mac |-> mac, name |-> a.name, mfg_data |-> a.mfg_data,
              rssi |-> a.rssi,
              sink |-> IF st.handed > 0 THEN sink ELSE "unused",
              time |-> time_now, gate |-> st.gate, decodes |-> st.decodes,
              branches |-> st.branches, handed |-> st.handed,
              published |-> st.published, announced |-> st.announced,
              reported |-> st.reported, raised |-> st.raised,
              registered |-> st.registered,
              attempt |-> Attempt(st),
              prev_attempt |-> last_attempt[mac]]
    /\ last_attempt' = IF Attempt(st) THEN [last_attempt EXCEPT ![mac] = time_now]
                       ELSE last_attempt
    /\ announce_count' = [announce_count EXCEPT ![mac] = @ + st.announced]
    /\ UNCHANGED <<now, args>>

(* one delivered advertisement, the callback run from entry to exit in one *)
(* step                                                                    *)
on_advertisement(mac, a, sink) ==
    Callback(mac, a, sink, now) /\ UNCHANGED inflight

Next ==
    \/ Tick
    \/ \E mac \in MACs, a \in QuietAds : on_advertisement(mac, a, "ok")
    \/ \E mac \in MACs, a \in ReadingAds, sink \in SinkOutcomes :
          on_advertisement(mac, a, sink)

Spec == Init /\ [][Next]_vars

----------------------------------------------------------------------------
(* The same callback fed with every temperature of TempRange, in both      *)
(* layouts, by a device that registers first.  The process starts past the *)
(* first debounce window and the broker stays unreachable, so that         *)
(* last_log stays 0 and every one of these advertisements is decoded.      *)

TempRange == (0 - MaxTemp)..MaxTemp

Sighting == [name |-> Some(GoveeX), mfg_data |-> None, rssi |-> None]

CodecAds ==
    {[name |-> None, rssi |-> Some(0 - 72),
      mfg_data |-> Some(Encode([layout |-> l, t |-> t, h |-> 5520, b |-> 88]))] :
        l \in {"H5074", "H5179"}, t \in TempRange}

InitCodec == Init /\ now = log_interval + 1 /\ ~args.ha_discovery

NextCodec ==
    \/ \E mac \in MACs : on_advertisement(mac, Sighting, "ok")
    \/ \E mac \in MACs, a \in CodecAds : on_advertisement(mac, a, "connect_oserror")

SpecCodec == InitCodec /\ [][NextCodec]_vars

----------------------------------------------------------------------------
(* Two devices advertising side by side: each registers under the vendor   *)
(* name and sends one reading per layout, the broker reachable or not      *)

PairAds ==
    {[name |-> None, rssi |-> Some(0 - 72), mfg_data |-> Some(p)] :
        p \in {H5074Payload(2130, 5520, 88), H5179Payload(0 - 200, 9990, 15)}}

NextPair ==
    \/ Tick
    \/ \E mac \in AllMACs : on_advertisement(mac, Sighting, "ok")
    \/ \E mac \in AllMACs, a \in PairAds, sink \in {"ok", "connect_oserror"} :
          on_advertisement(mac, a, sink)

SpecPair == Init /\ [][NextPair]_vars

(***************************************************************************)
(* The callback with the call of the MQTT client as a step of its own.     *)
(* mqtt_publish is called from process, which on_advertisement calls       *)
(* inline (lines 164-165, 178-179): there is no queue and no worker, so    *)
(* the observer's callback has not returned while connect or publish is    *)
(* waiting for the broker.  Enter is the callback up to the call of the    *)
(* client, SinkReturns is the client returning or raising and the rest of  *)
(* the callback, Through is a callback that never reaches the client.      *)
(* The clock keeps running while the client waits.                         *)
(***************************************************************************)
IntakeAds == {Sighting} \cup PairAds

(* the callback on a from mac calls the MQTT client (connect, line 31) *)
ReachesSink(mac, a) ==
    Handle(govee_devices, mac, a.name, a.mfg_data, a.rssi, now, "ok",
           args.ha_discovery).handed > 0

(* the observer can call on_advertising_data: no earlier call is running *)
ObserverFree(inf) == inf = None

Enter(mac, a) ==
    /\ ObserverFree(inflight)
    /\ ReachesSink(mac, a)
    /\ inflight' = Some([mac |-> mac, a |-> a, time_now |-> now])
    /\ UNCHANGED <<govee_devices, now, args, ev, last_attempt, announce_count>>

Through(mac, a) ==
    /\ ObserverFree(inflight)
    /\ ~ReachesSink(mac, a)
    /\ Callback(mac, a, "ok", now)
    /\ UNCHANGED inflight

SinkReturns(sink) ==
    /\ inflight # None
    /\ Callback(The(inflight).mac, The(inflight).a, sink, The(inflight).time_now)
    /\ inflight' = None

(* the observer delivers the next advertisement to the callback *)
Intake == \E mac \in MACs, a \in IntakeAds : Enter(mac, a) \/ Through(mac, a)

NextIntake ==
    \/ Tick
    \/ \E mac \in MACs, a \in IntakeAds : Enter(mac, a)
    \/ \E mac \in MACs, a \in IntakeAds : Through(mac, a)
    \/ \E sink \in SinkOutcomes : SinkReturns(sink)

SpecIntake == Init /\ [][NextIntake]_vars

----------------------------------------------------------------------------
(* Vocabulary of the properties *)

(* the two layouts: prefix bytes, total length, offset of the triple *)
Layouts == {[name |-> "H5074", prefix |-> <<136, 236>>, len |-> 9, off |-> 3],
            [name |-> "H5179", prefix |-> <<1, 136>>, len |-> 11, off |-> 6]}

Matches(p, L) == Len(p) = L.len /\ SubSeq(p, 1, 2) = L.prefix

LayoutsOf(o) == IF o = None THEN {} ELSE {L \in Layouts : Matches(The(o), L)}

(* the reading a sensor encoded into manufacturer data o *)
ReadingOf(o) == CHOOSE r \in Readings : Encode(r) = The(o)

Complete(e) == HasKey(e, "temperature") /\ HasKey(e, "humidity")

HasReading(e, r) ==
    /\ Complete(e) /\ HasKey(e, "battery")
    /\ e["temperature"] = r.t /\ e["humidity"] = r.h /\ e["battery"] = r.b

(* a step is a callback exactly when it leaves the clock alone *)
AdStep == now' = now

(* the last callback was for a device that was registered and carried data *)
Gated == ev.gate # "skipped"

SinkFailures == SinkOutcomes \ {"ok"}

----------------------------------------------------------------------------
(* C1: for a registered device and manufacturer data of a known layout,   *)
(* the callback hands a reading to mqtt_publish if and only if             *)
(* now - last_log > log_interval (strictly) and the entry then holds a     *)
(* complete reading; at a difference of 59 nothing is handed over, at 60   *)
(* the reading is.                                                         *)
C1_PublishGate ==
    [][(AdStep /\ ev'.mac \in DOMAIN govee_devices /\ LayoutsOf(ev'.mfg_data) # {})
       => LET m == ev'.mac
              diff == now - govee_devices[m]["last_log"]
          IN /\ (ev'.handed > 0) <=> (diff > log_interval /\ Complete(govee_devices'[m]))
             /\ diff = log_interval => ev'.handed = 0 /\ ev'.gate = "denied"
             /\ diff = log_interval + 1 => ev'.handed = 1 /\ ev'.gate = "passed"]_vars

(* a never published device publishes at the first second past the window *)
C1_Witness ==
    /\ ev.published = 1 /\ ev.time = log_interval + 1 /\ ev.prev_attempt = NoTime
    /\ govee_devices[ev.mac]["last_log"] = ev.time

(* C2 (as claimed): two publish attempts for one address are more than     *)
(* log_interval seconds apart, whatever became of the first.               *)
C2_RateLimit ==
    ev.attempt =>
        /\ ev.handed = 1
        /\ ev.prev_attempt # NoTime => ev.time - ev.prev_attempt > log_interval

C4_EmitOnPass ==
    (ev.gate = "passed" /\ LayoutsOf(ev.mfg_data) # {} /\ ev.sink = "ok")
    => /\ ev.published = 1
       /\ govee_devices[ev.mac]["last_log"] = ev.time

(* C5 (as claimed): when the sink fails, the failure is reported, the      *)
(* entry keeps the newly decoded reading and last_log is the time of the   *)
(* attempt.                                                                *)
C5_FailureCommits ==
    (ev.handed > 0 /\ ev.sink \in SinkFailures)
    => /\ ev.reported
       /\ HasReading(govee_devices[ev.mac], ReadingOf(ev.mfg_data))
       /\ govee_devices[ev.mac]["timestamp"] = ev.time
       /\ govee_devices[ev.mac]["last_log"] = ev.time

(* C6: whenever a reading is handed to mqtt_publish the entry it is taken  *)
(* from has a temperature and a humidity.                                  *)
C6_NoIncompleteEvent ==
    ev.handed > 0 => Complete(govee_devices[ev.mac])

(* a reading was published from a complete entry *)
C6_Witness ==
    /\ ev.handed = 1 /\ ev.published = 1
    /\ HasReading(govee_devices[ev.mac], ReadingOf(ev.mfg_data))

C8_OnlyOnSuccess ==
    [][\A m \in DOMAIN govee_devices :
          govee_devices'[m]["last_log"] # govee_devices[m]["last_log"]
          => ev'.mac = m /\ ev'.published > 0]_vars

(* C8 (amended): last_log changes only in a callback for that device in    *)
(* which mqtt_publish was called and returned, the reading published or    *)
(* the failure caught and reported, and it becomes the time of that        *)
(* callback.                                                               *)
C8_OnlyOnReturn ==
    [][\A m \in DOMAIN govee_devices :
          govee_devices'[m]["last_log"] # govee_devices[m]["last_log"]
          => /\ AdStep /\ ev'.mac = m
             /\ ev'.handed = 1 /\ ev'.raised = "none"
             /\ ev'.published = 1 \/ ev'.reported
             /\ govee_devices'[m]["last_log"] = now]_vars

(* last_log advanced although the publish failed *)
C8_Witness ==
    /\ ev.handed = 1 /\ ev.published = 0 /\ ev.reported /\ ev.raised = "none"
    /\ govee_devices[ev.mac]["last_log"] = ev.time

(* C9 (as claimed): manufacturer data of no known layout, for a registered *)
(* device, is dropped silently: no decode, no publish, no exception, the   *)
(* registry unchanged.                                                     *)
C9_SilentDrop ==
    [][(AdStep /\ ev'.mac \in DOMAIN govee_devices
        /\ ev'.mfg_data # None /\ LayoutsOf(ev'.mfg_data) = {})
       => /\ ev'.decodes = 0 /\ ev'.handed = 0 /\ ev'.raised = "none"
          /\ govee_devices' = govee_devices]_vars

(* C10: one callback enters at most one layout branch, the branch of the   *)
(* layout its data has, and so decodes and publishes at most once.         *)
C10_OneBranch ==
    /\ Cardinality(ev.branches) <= 1
    /\ ev.decodes <= 1 /\ ev.handed <= 1 /\ ev.published <= 1
    /\ ev.gate = "passed" => ev.branches = {L.name : L \in LayoutsOf(ev.mfg_data)}

(* an H5179 advertisement decoded and published by the H5179 branch *)
C10_Witness ==
    /\ ev.branches = {"H5179"} /\ ev.decodes = 1 /\ ev.published = 1
    /\ Matches(The(ev.mfg_data), CHOOSE L \in Layouts : L.name = "H5179")

(* C11: a callback that comes with no rssi or with rssi 0 leaves the       *)
(* stored rssi as it was; the stored rssi changes, or first appears, only  *)
(* in a callback that decodes a reading and comes with a nonzero rssi,     *)
(* which it then holds.                                                    *)
C11_RssiRetention ==
    [][\A m \in DOMAIN govee_devices :
         LET old == govee_devices[m]
             new == govee_devices'[m]
         IN /\ HasKey(old, "rssi") => HasKey(new, "rssi")
            /\ (AdStep /\ ev'.mac = m /\ ev'.rssi \in {None, Some(0)}
                /\ HasKey(old, "rssi")) => new["rssi"] = old["rssi"]
            /\ (HasKey(new, "rssi") /\ (~HasKey(old, "rssi") \/ new["rssi"] # old["rssi"]))
               => /\ AdStep /\ ev'.mac = m /\ ev'.decodes = 1
                  /\ ev'.rssi \notin {None, Some(0)}
                  /\ new["rssi"] = The(ev'.rssi)
            /\ (AdStep /\ ev'.mac = m /\ ev'.decodes = 1
                /\ ev'.rssi \notin {None, Some(0)})
               => HasKey(new, "rssi") /\ new["rssi"] = The(ev'.rssi)]_vars

(* a reading decoded with rssi 0 while the entry keeps -72 *)
C11_Witness ==
    /\ ev.decodes = 1 /\ ev.rssi = Some(0)
    /\ HasKey(govee_devices[ev.mac], "rssi")
    /\ govee_devices[ev.mac]["rssi"] = 0 - 72
    /\ govee_devices[ev.mac]["timestamp"] = ev.time

(* the name is present and begins with the five characters of "Govee" *)
VendorName(o) ==
    /\ o # None /\ Len(The(o)) >= 5
    /\ \A i \in 1..5 : The(o)[i] = <<"G", "o", "v", "e", "e">>[i]

ReadingKeys == {"temperature", "humidity", "battery", "rssi"}

(* the advertisement of the step decodes nothing: it has no manufacturer   *)
(* data, or data of no known layout, or the debounce test fails            *)
NoReadingDue(m) ==
    \/ LayoutsOf(ev'.mfg_data) = {}
    \/ now - govee_devices[m]["last_log"] <= log_interval

(* C12 (as claimed): an advertisement with a vendor name for a registered  *)
(* address leaves the entry's name, reading and last_log unchanged.        *)
C12_ResightingChangesNothing ==
    [][\A m \in DOMAIN govee_devices :
         (AdStep /\ ev'.mac = m /\ VendorName(ev'.name))
         => govee_devices'[m] = govee_devices[m]]_vars

(* C12 (amended): such an advertisement leaves the name and the address    *)
(* unchanged and removes no key; it leaves the whole entry unchanged       *)
(* unless it also carries manufacturer data of a known layout that passes  *)
(* the debounce test, and then the entry is the one the reading block      *)
(* leaves, with last_log the old value or the time of the callback.        *)
C12_RegistrationIdempotent ==
    [][\A m \in DOMAIN govee_devices :
         (AdStep /\ ev'.mac = m /\ VendorName(ev'.name))
         => /\ ~ev'.registered
            /\ govee_devices'[m]["name"] = govee_devices[m]["name"]
            /\ govee_devices'[m]["address"] = govee_devices[m]["address"]
            /\ DOMAIN govee_devices[m] \subseteq DOMAIN govee_devices'[m]
            /\ govee_devices'[m]["last_log"] \in {govee_devices[m]["last_log"], now}
            /\ NoReadingDue(m) => govee_devices'[m] = govee_devices[m]]_vars

(* a device with a published reading is sighted again under its name *)
C12_Witness ==
    /\ VendorName(ev.name) /\ ~ev.registered /\ ev.mfg_data = None
    /\ Complete(govee_devices[ev.mac])
    /\ govee_devices[ev.mac]["last_log"] > 0

(* C13: the registry is empty at the start; an address enters it in        *)
(* exactly the callbacks from that address whose advertisement has a name  *)
(* beginning with "Govee"; the new entry has last_log 0, the name up to    *)
(* the first apostrophe and no reading; no address ever leaves.            *)
C13_Membership ==
    [][/\ DOMAIN govee_devices \subseteq DOMAIN govee_devices'
       /\ \A m \in AllMACs \ DOMAIN govee_devices :
            /\ (m \in DOMAIN govee_devices')
                <=> (AdStep /\ ev'.mac = m /\ VendorName(ev'.name))
            /\ (m \in DOMAIN govee_devices')
                => /\ govee_devices'[m]["last_log"] = 0
                   /\ DOMAIN govee_devices'[m] \cap ReadingKeys = {}
                   /\ govee_devices'[m]["name"] = <<"G", "o", "v", "e", "e", "X">>
                   /\ ev'.registered]_vars

(* the address has just been registered *)
C13_Witness ==
    /\ ev.registered /\ VendorName(ev.name) /\ ev.mfg_data = None
    /\ govee_devices[ev.mac]["last_log"] = 0
    /\ DOMAIN govee_devices[ev.mac] \cap ReadingKeys = {}

(* the 16-bit little-endian value at the layout's offset *)
RawTemp(p, L) == p[L.off + 1] + 256 * p[L.off + 2]

(* C14: the temperature stored for a decoded payload is the signed value   *)
(* the sensor encoded: the raw 16-bit value less 2^16 when its bit 15 is   *)
(* set, the raw value otherwise, and encoding the stored value gives the   *)
(* payload bytes back.                                                     *)
C14_RoundTrip ==
    ev.decodes = 1 =>
      \A L \in LayoutsOf(ev.mfg_data) :
        LET p == The(ev.mfg_data)
            raw == RawTemp(p, L)
            stored == govee_devices[ev.mac]["temperature"]
        IN /\ raw >= 32768 => stored = raw - 65536
           /\ raw < 32768 => stored = raw
           /\ stored \in TempRange
           /\ Lo(stored) = p[L.off + 1] /\ Hi(stored) = p[L.off + 2]

(* the coldest temperature of the range came back *)
C14_Witness ==
    /\ ev.decodes = 1
    /\ RawTemp(The(ev.mfg_data), CHOOSE L \in Layouts : L.name = "H5074") = 65536 - 200
    /\ govee_devices[ev.mac]["temperature"] = 0 - 200

(* a 16-bit value read as a signed integer *)
Signed16(raw) == IF raw >= 32768 THEN raw - 65536 ELSE raw

(* C15: a decoded reading is the triple found at byte offset 3 of an       *)
(* H5074 payload and at byte offset 6 of an H5179 payload: temperature     *)
(* the signed 16-bit little-endian value, humidity the unsigned one after  *)
(* it, battery the byte after that; it is the reading the sensor encoded,  *)
(* and the five bytes lie inside the payload, so unpack_from never raises. *)
C15_FieldsAtOffset ==
    /\ ev.raised # "struct.error"
    /\ ev.decodes = 1 =>
         /\ Cardinality(LayoutsOf(ev.mfg_data)) = 1
         /\ \A L \in LayoutsOf(ev.mfg_data) :
              LET p == The(ev.mfg_data)
                  e == govee_devices[ev.mac]
              IN /\ L.off = (IF ev.branches = {"H5074"} THEN 3 ELSE 6)
                 /\ L.off + 5 <= Len(p) /\ Len(p) = L.len
                 /\ e["temperature"] = Signed16(RawTemp(p, L))
                 /\ e["humidity"] = p[L.off + 3] + 256 * p[L.off + 4]
                 /\ e["battery"] = p[L.off + 5]
                 /\ HasReading(e, ReadingOf(ev.mfg_data))

(* an H5179 reading read at offset 6 *)
C15_Witness ==
    /\ ev.decodes = 1 /\ ev.branches = {"H5179"}
    /\ Len(The(ev.mfg_data)) = 11
    /\ govee_devices[ev.mac]["humidity"] = 9990
    /\ govee_devices[ev.mac]["battery"] = 15

(* C17: a callback from an address that is not in the registry decodes     *)
(* nothing and hands nothing to mqtt_publish, whatever manufacturer data   *)
(* it carries; with a vendor name it creates the fresh entry, without one  *)
(* it changes nothing.                                                     *)
C17_RegistrationOnly ==
    [][\A m \in AllMACs \ DOMAIN govee_devices :
         (AdStep /\ ev'.mac = m)
         => /\ ev'.gate = "skipped" /\ ev'.decodes = 0 /\ ev'.branches = {}
            /\ ev'.handed = 0 /\ ev'.published = 0 /\ ev'.announced = 0
            /\ ev'.raised = "none"
            /\ last_attempt' = last_attempt
            /\ IF VendorName(ev'.name)
               THEN /\ DOMAIN govee_devices' = DOMAIN govee_devices \cup {m}
                    /\ DOMAIN govee_devices'[m] \cap ReadingKeys = {}
                    /\ govee_devices'[m]["last_log"] = 0
               ELSE govee_devices' = govee_devices]_vars

(* registered by an advertisement that carried a valid payload as well *)
C17_Witness ==
    /\ ev.registered /\ LayoutsOf(ev.mfg_data) # {} /\ ev.time > log_interval
    /\ ev.decodes = 0 /\ ev.handed = 0
    /\ ~Complete(govee_devices[ev.mac])

(* C19: a callback from address A leaves every other address as it was:    *)
(* a registered B keeps its whole entry, an unregistered B stays out of    *)
(* the registry, and B's publish attempts and announcements are not        *)
(* touched; A's debounce test looks at A's last_log only.                  *)
C19_Isolation ==
    [][AdStep =>
       /\ \A b \in AllMACs \ {ev'.mac} :
            /\ (b \in DOMAIN govee_devices') <=> (b \in DOMAIN govee_devices)
            /\ b \in DOMAIN govee_devices => govee_devices'[b] = govee_devices[b]
            /\ last_attempt'[b] = last_attempt[b]
            /\ announce_count'[b] = announce_count[b]
       /\ (ev'.mac \in DOMAIN govee_devices /\ ev'.mfg_data # None)
          => ((ev'.gate = "passed")
              <=> (now - govee_devices[ev'.mac]["last_log"] > log_interval))]_vars

(* A publishes while B, which published one window earlier, is untouched *)
C19_Witness ==
    /\ ev.published = 1
    /\ \E b \in DOMAIN govee_devices \ {ev.mac} :
         /\ govee_devices[b]["last_log"] > 0
         /\ govee_devices[b]["last_log"] < ev.time
         /\ govee_devices[ev.mac]["last_log"] = ev.time

(* C16 (as claimed): publishing is decoupled from the receive path; while  *)
(* a publish is waiting for the sink, the next advertisement can still be  *)
(* taken in and processed.                                                 *)
C16_IntakeNotStalled == inflight # None => ENABLED Intake

====
